---- MODULE Spec2Model ----
(***************************************************************************)
(* Model of the xAI public researcher mapper (XAIPublicResearcherMapper    *)
(* and its CLI entrypoint main): the source connectors append candidates   *)
(* to `people`, exportResults runs deduplicatePeople over them and writes  *)
(* the result, close() releases the browser.                               *)
(*                                                                         *)
(* Strings are sequences of one-character strings, so that toLowerCase,    *)
(* trim and includes are computed, not assumed.  The empty sequence stands *)
(* for both undefined and "" (both are falsy for `||` and `!`).            *)
(* researchScore is kept exactly, in units of 1/90 (0.1 = 9, 1/9 = 10).    *)
(* The fields title, company and notes of PublicResearcher are left out:   *)
(* no merge decision reads them.                                           *)
(***************************************************************************)
EXTENDS Integers, Sequences, FiniteSets, TLC

(***************************************************************************)
(* Bounds of the model                                                     *)
(***************************************************************************)
MaxPeople == 3
MaxBatch == 2

(***************************************************************************)
(* String primitives                                                       *)
(***************************************************************************)
Upper == <<"A", "B", "C", "D", "E", "F", "G", "H", "I", "J", "K", "L", "M",
           "N", "O", "P", "Q", "R", "S", "T", "U", "V", "W", "X", "Y", "Z">>
Lower == <<"a", "b", "c", "d", "e", "f", "g", "h", "i", "j", "k", "l", "m",
           "n", "o", "p", "q", "r", "s", "t", "u", "v", "w", "x", "y", "z">>

UpperCase == {Upper[i] : i \in 1..Len(Upper)}

LowerOf == [c \in UpperCase |-> Lower[CHOOSE i \in 1..Len(Upper) : Upper[i] = c]]

LowerChar(c) == IF c \in UpperCase THEN LowerOf[c] ELSE c

ToLowerCase(s) == [i \in 1..Len(s) |-> LowerChar(s[i])]

RECURSIVE TrimStart(_)
TrimStart(s) ==
  IF s # <<>> /\ Head(s) = " " THEN TrimStart(Tail(s)) ELSE s

RECURSIVE TrimEnd(_)
TrimEnd(s) ==
  IF s # <<>> /\ s[Len(s)] = " " THEN TrimEnd(SubSeq(s, 1, Len(s) - 1)) ELSE s

Trim(s) == TrimEnd(TrimStart(s))

Includes(s, k) ==
  \E i \in 0..(Len(s) - Len(k)) : SubSeq(s, i + 1, i + Len(k)) = k

\* a || b on strings
Or(a, b) == IF a # <<>> THEN a ELSE b

Min(a, b) == IF a <= b THEN a ELSE b
Max(a, b) == IF a >= b THEN a ELSE b

SeqToSet(s) == {s[i] : i \in 1..Len(s)}

\* Array.from(new Set(s)): first occurrences, in order
RECURSIVE Unique(_)
Unique(s) ==
  IF s = <<>> THEN <<>>
  ELSE LET rest == Unique(SubSeq(s, 1, Len(s) - 1))
           x == s[Len(s)]
       IN IF x \in SeqToSet(rest) THEN rest ELSE Append(rest, x)

(***************************************************************************)
(* Scores: 1 is ScoreOne units                                             *)
(***************************************************************************)
ScoreOne == 90
ScoreTenth == 9

(***************************************************************************)
(* Keyword tables                                                          *)
(***************************************************************************)
researchKeywords == <<
  <<"r","e","s","e","a","r","c","h">>,
  <<"s","c","i","e","n","t","i","s","t">>,
  <<"m","a","c","h","i","n","e"," ","l","e","a","r","n","i","n","g">>,
  <<"m","l">>,
  <<"a","i">>,
  <<"d","e","e","p"," ","l","e","a","r","n","i","n","g">>,
  <<"n","l","p">>,
  <<"v","i","s","i","o","n">>,
  <<"r","o","b","o","t","i","c","s">> >>

highConfidenceKeywords == <<
  <<"p","a","l","o"," ","a","l","t","o">>,
  <<"m","e","n","l","o"," ","p","a","r","k">>,
  <<"m","o","u","n","t","a","i","n"," ","v","i","e","w">>,
  <<"s","u","n","n","y","v","a","l","e">>,
  <<"s","a","n"," ","f","r","a","n","c","i","s","c","o">>,
  <<"s","f",",">>,
  <<"r","e","d","w","o","o","d"," ","c","i","t","y">>,
  <<"c","u","p","e","r","t","i","n","o">> >>

mediumConfidenceKeywords == <<
  <<"b","a","y"," ","a","r","e","a">>,
  <<"s","i","l","i","c","o","n"," ","v","a","l","l","e","y">>,
  <<"s","a","n"," ","j","o","s","e">>,
  <<"c","a","l","i","f","o","r","n","i","a">>,
  <<"c","a">>,
  <<"o","a","k","l","a","n","d">>,
  <<"b","e","r","k","e","l","e","y">>,
  <<"f","r","e","m","o","n","t">>,
  <<"s","a","n","t","a"," ","c","l","a","r","a">> >>

Some(keywords, text) == \E i \in 1..Len(keywords) : Includes(text, keywords[i])

(***************************************************************************)
(* Classifiers                                                             *)
(***************************************************************************)
\* only the first keyword looked for
isResearchLikeFirstKeyword(text) == Includes(text, researchKeywords[1])

isResearchLike(text) == Some(researchKeywords, text)

\* the sum returned without Math.min(1, ...)
computeResearchScoreUncapped(text) ==
  LET hits == Cardinality({i \in 1..Len(researchKeywords) :
                             Includes(text, researchKeywords[i])})
  IN (hits * ScoreOne) \div Len(researchKeywords) + 2 * ScoreTenth

computeResearchScore(text) ==
  LET hits == Cardinality({i \in 1..Len(researchKeywords) :
                             Includes(text, researchKeywords[i])})
  IN Min(ScoreOne, (hits * ScoreOne) \div Len(researchKeywords) + 2 * ScoreTenth)

\* the medium keywords tried before the high keywords
assessLocationConfidenceMediumFirst(location) ==
  IF location = <<>> THEN "low"
  ELSE LET loc == ToLowerCase(location)
       IN IF Some(mediumConfidenceKeywords, loc) THEN "medium"
          ELSE IF Some(highConfidenceKeywords, loc) THEN "high"
          ELSE "low"

assessLocationConfidence(location) ==
  IF location = <<>> THEN "low"
  ELSE LET loc == ToLowerCase(location)
       IN IF Some(highConfidenceKeywords, loc) THEN "high"
          ELSE IF Some(mediumConfidenceKeywords, loc) THEN "medium"
          ELSE "low"

confRank(c) == CASE c = "low" -> 0 [] c = "medium" -> 1 [] c = "high" -> 2

(***************************************************************************)
(* What the network and the pages can answer                               *)
(***************************************************************************)
UrlG1 == <<"g", "1">>
UrlG2 == <<"g", "2">>
UrlH1 == <<"h", "1">>
UrlH2 == <<"h", "2">>
UrlO1 == <<"o", "1">>
UrlO2 == <<"o", "2">>
UrlN1 == <<"n", "1">>
UrlN2 == <<"n", "2">>
UrlXai == <<"x", ".", "a", "i">>
UrlXaiCompany == <<"x", ".", "a", "i", "/", "c">>

NameJoLee == <<"J", "o", " ", "L", "e", "e">>

\* GET /users/{login}: the profile can differ between two requests
GitHubUsers == {
  [login |-> <<"j", "o">>, name |-> NameJoLee,
   location |-> <<"P", "a", "l", "o", " ", "A", "l", "t", "o">>,
   bio |-> <<"M", "L">>, blog |-> UrlH2, html_url |-> UrlG1],
  [login |-> <<"j", "o">>, name |-> <<"j", "o", " ", "l", "e", "e", " ">>,
   location |-> <<"B", "o", "s", "t", "o", "n">>,
   bio |-> <<>>, blog |-> UrlH1, html_url |-> UrlG1],
  [login |-> <<"b", "o">>, name |-> <<>>,
   location |-> <<>>,
   bio |-> <<>>, blog |-> UrlH1, html_url |-> UrlG2] }

\* .team-member / .profile-card elements: text of .name and of .title
XaiCards == {
  [name |-> NameJoLee],
  [name |-> <<" ", "J", "O", " ", "L", "E", "E">>],
  [name |-> <<" ">>] }

\* OpenAlex authors?search=xai results
OpenAlexAuthors == {
  [id |-> UrlO1, display_name |-> NameJoLee, works_count |-> 99,
   affiliations |-> << [display_name |-> <<"x", "A", "I">>,
                        country_code |-> <<"U", "S">>] >>],
  [id |-> UrlO1, display_name |-> NameJoLee, works_count |-> 0,
   affiliations |-> << [display_name |-> <<"M", "I", "T">>,
                        country_code |-> <<"U", "S">>],
                       [display_name |-> <<"X", ".", "a", "i">>,
                        country_code |-> <<>>] >>],
  [id |-> UrlO2, display_name |-> <<"B", "o">>, works_count |-> 9,
   affiliations |-> << [display_name |-> <<"M", "I", "T">>,
                        country_code |-> <<"U", "S">>] >>] }

\* names found with employee context, with the url of the article of each match
PressMentions == {
  [name |-> NameJoLee, urls |-> <<UrlN1, UrlN1, UrlN2>>],
  [name |-> <<"B", "o", " ", "C", "h", "a", "n">>, urls |-> <<UrlN1, UrlN1>>],
  [name |-> <<"A", "l", " ", "C", "h", "a", "n">>, urls |-> <<UrlN2>>] }

SeqsUpTo(S, n) == UNION {[1..k -> S] : k \in 0..n}

(***************************************************************************)
(* The PublicResearcher each connector builds                              *)
(***************************************************************************)
Person(name, location, conf, github, openAlex, homepage, xai, sources, flag, score) ==
  [name |-> name, location |-> location, locationConfidence |-> conf,
   githubUrl |-> github, openAlexUrl |-> openAlex, homepageUrl |-> homepage,
   xaiPageUrl |-> xai, otherSources |-> sources,
   isResearchLike |-> flag, researchScore |-> score]

XaiPerson(card, sourceUrl) ==
  Person(Trim(card.name), <<>>, "low", <<>>, <<>>, <<>>, sourceUrl,
         <<sourceUrl>>, FALSE, 0)

XaiPagePeople(cards, sourceUrl) ==
  LET named(c) == Trim(c.name) # <<>>
      kept == SelectSeq(cards, named)
  IN [i \in 1..Len(kept) |-> XaiPerson(kept[i], sourceUrl)]

OrgMemberPerson(user) ==
  Person(Or(user.name, user.login), user.location,
         IF user.location # <<>>
         THEN (IF Includes(ToLowerCase(user.location),
                           <<"p","a","l","o"," ","a","l","t","o">>)
               THEN "high" ELSE "medium")
         ELSE "low",
         user.html_url, <<>>, <<>>, <<>>, <<user.html_url>>,
         isResearchLike(ToLowerCase(user.bio)),
         computeResearchScore(ToLowerCase(user.bio)))

ContributorPerson(user) ==
  LET name == Trim(Or(user.name, user.login))
      location == Trim(user.location)
      bio == ToLowerCase(user.bio)
  IN Person(name, location, assessLocationConfidence(location),
            user.html_url, <<>>, user.blog, <<>>, <<user.html_url>>,
            isResearchLike(bio), computeResearchScore(bio))

Log10(n) == CASE n = 1 -> 0 [] n = 10 -> 1 [] n = 100 -> 2

IsXaiAffiliation(aff) ==
  /\ aff.display_name # <<>>
  /\ LET lower == ToLowerCase(aff.display_name)
     IN Includes(lower, <<"x", "a", "i">>) \/ Includes(lower, <<"x", ".", "a", "i">>)

OpenAlexPerson(author) ==
  LET xaiAffils == SelectSeq(author.affiliations, IsXaiAffiliation)
      country == xaiAffils[1].country_code
      researchScore ==
        Min(ScoreOne, 3 * ScoreTenth + (Log10(author.works_count + 1) * ScoreOne) \div 2)
  IN Person(author.display_name, country,
            IF country # <<>> THEN "medium" ELSE "low",
            <<>>, author.id, <<>>, <<>>, <<author.id>>, TRUE, researchScore)

OpenAlexPeople(authors) ==
  LET hasXai(a) == SelectSeq(a.affiliations, IsXaiAffiliation) # <<>>
      kept == SelectSeq(authors, hasXai)
  IN [i \in 1..Len(kept) |-> OpenAlexPerson(kept[i])]

\* mentionedNames entry: count++ per match, sources.push(url) unless included
MentionEntry(mention) ==
  [name |-> mention.name, count |-> Len(mention.urls),
   sources |-> Unique(mention.urls)]

PressPerson(entry) ==
  Person(entry.name, <<>>, "low", <<>>, <<>>, <<>>, <<>>,
         SubSeq(entry.sources, 1, Min(3, Len(entry.sources))), TRUE,
         5 * ScoreTenth)

PressPeople(mentions) ==
  LET often(m) == MentionEntry(m).count >= 2
      kept == SelectSeq(mentions, often)
  IN [i \in 1..Len(kept) |-> PressPerson(MentionEntry(kept[i]))]

(***************************************************************************)
(* deduplicatePeople: `seen` is the Map, as its entries in insertion order *)
(***************************************************************************)
\* the name used as it is, not lower-cased
MergeKeyCaseSensitive(person) ==
  Or(Or(person.githubUrl, person.openAlexUrl), Trim(person.name))

\* the name compared before the urls
MergeKeyNameFirst(person) == Trim(ToLowerCase(person.name))

\* the homepage url tried after the GitHub and OpenAlex urls
MergeKeyHomepageThird(person) ==
  Or(Or(Or(person.githubUrl, person.openAlexUrl), person.homepageUrl),
     Trim(ToLowerCase(person.name)))

MergeKey(person) ==
  Or(Or(person.githubUrl, person.openAlexUrl), Trim(ToLowerCase(person.name)))

HasKey(s, key) == \E i \in 1..Len(s) : s[i].key = key

Get(s, key) == s[CHOOSE i \in 1..Len(s) : s[i].key = key].person

\* every set adds an entry, also for a key the Map holds
MapSetAlwaysAppends(s, key, person) ==
  Append(s, [key |-> key, person |-> person])

\* Map.set: a new key goes last, an old key keeps its place
MapSet(s, key, person) ==
  IF HasKey(s, key)
  THEN [i \in 1..Len(s) |->
          IF s[i].key = key THEN [key |-> key, person |-> person] ELSE s[i]]
  ELSE Append(s, [key |-> key, person |-> person])

\* the increment without the cap
MergedScoreUncapped(existingScore, personScore) ==
  Max(existingScore, personScore) + ScoreTenth

\* the higher score kept, without the increment
MergedScoreNoIncrement(existingScore, personScore) ==
  Min(ScoreOne, Max(existingScore, personScore))

\* the stored score raised, the candidate's score not looked at
MergedScoreExistingOnly(existingScore, personScore) ==
  Min(ScoreOne, existingScore + ScoreTenth)

\* the candidate's score raised, the stored score not looked at
MergedScoreCandidateOnly(existingScore, personScore) ==
  Min(ScoreOne, personScore + ScoreTenth)

MergedScore(existingScore, personScore) ==
  Min(ScoreOne, Max(existingScore, personScore) + ScoreTenth)

\* the candidate's sources dropped
MergedSourcesKeepExisting(existingSources, personSources) == existingSources

\* the two arrays concatenated, not passed through a Set
MergedSourcesConcat(existingSources, personSources) ==
  existingSources \o personSources

MergedSources(existingSources, personSources) ==
  Unique(existingSources \o personSources)

\* the later candidate's confidence always stored
MergedConfidenceLastWins(existingConf, personConf) == personConf

MergedConfidence(existingConf, personConf) ==
  IF confRank(personConf) > confRank(existingConf) THEN personConf
  ELSE existingConf

\* the later candidate's flag always stored
MergedResearchLikeLastWins(existingFlag, personFlag) == personFlag

\* the flag kept only when both records carry it
MergedResearchLikeBoth(existingFlag, personFlag) == existingFlag /\ personFlag

MergedResearchLike(existingFlag, personFlag) == existingFlag \/ personFlag

\* the later candidate's link preferred
MergedLinkLastWins(existingUrl, personUrl) == Or(personUrl, existingUrl)

MergedLink(existingUrl, personUrl) == Or(existingUrl, personUrl)

Merge(existing, person) ==
  [name |-> existing.name,
   location |-> Or(existing.location, person.location),
   locationConfidence |->
     MergedConfidence(existing.locationConfidence, person.locationConfidence),
   githubUrl |-> MergedLink(existing.githubUrl, person.githubUrl),
   openAlexUrl |-> MergedLink(existing.openAlexUrl, person.openAlexUrl),
   homepageUrl |-> MergedLink(existing.homepageUrl, person.homepageUrl),
   xaiPageUrl |-> MergedLink(existing.xaiPageUrl, person.xaiPageUrl),
   otherSources |-> MergedSources(existing.otherSources, person.otherSources),
   researchScore |-> MergedScore(existing.researchScore, person.researchScore),
   isResearchLike |->
     MergedResearchLike(existing.isResearchLike, person.isResearchLike)]

\* the first occurrence of a key passed through the merge as well
DedupIterationMergesFirst(s, person) ==
  LET key == MergeKey(person)
  IN IF ~HasKey(s, key) THEN MapSet(s, key, Merge(person, person))
     ELSE MapSet(s, key, Merge(Get(s, key), person))

\* one iteration of the for-of loop
DedupIteration(s, person) ==
  LET key == MergeKey(person)
  IN IF ~HasKey(s, key) THEN MapSet(s, key, person)
     ELSE MapSet(s, key, Merge(Get(s, key), person))

RECURSIVE DedupFold(_)
DedupFold(ps) ==
  IF ps = <<>> THEN <<>>
  ELSE DedupIteration(DedupFold(SubSeq(ps, 1, Len(ps) - 1)), ps[Len(ps)])

MapValues(s) == [i \in 1..Len(s) |-> s[i].person]

(***************************************************************************)
(* State of one run of main                                                *)
(***************************************************************************)
VARIABLES
  pc,          \* where main is
  people,      \* this.people
  seen,        \* the Map of deduplicatePeople
  idx,         \* number of people deduplicatePeople has iterated over
  browser,     \* this.browser is set and open
  page,        \* this.page is set
  newsApiKey,  \* NEWSAPI_KEY is configured
  error,       \* the call whose exception reached the catch of main
  exported,    \* writeRecords has written the records
  hunterKey,   \* part_002: HunterClient.apiKey
  pdlKey,      \* part_002: PeopleDataLabsClient.apiKey
  requests,    \* part_002: the requests axios has issued
  lastCall     \* part_002: the last call of a client, its responses, its result

clientVars == <<hunterKey, pdlKey, requests, lastCall>>

vars == <<pc, people, seen, idx, browser, page, newsApiKey, error, exported,
          hunterKey, pdlKey, requests, lastCall>>

\* no request was issued
NoResponse == [kind |-> "none", items |-> <<>>]

\* the programs of part_000 and scraper-researchers.ts construct no client
ClientsIdle ==
  /\ hunterKey = <<>>
  /\ pdlKey = <<>>
  /\ requests = <<>>
  /\ lastCall = [method |-> "none", hunter |-> NoResponse, pdl |-> NoResponse,
                 returned |-> <<>>]

ConnectorNames == {"scrapeXAISite", "fetchGitHubOrgMembers",
                   "fetchGitHubContributors", "fetchOpenAlexResearchers",
                   "fetchPressMentions"}

Init ==
  /\ pc = "initialize"
  /\ people = <<>>
  /\ seen = <<>>
  /\ idx = 0
  /\ browser = FALSE
  /\ page = FALSE
  /\ newsApiKey \in BOOLEAN
  /\ error = "none"
  /\ exported = FALSE
  /\ ClientsIdle

Throw(call) ==
  /\ error' = call
  /\ pc' = "catch"

\* initialize(): chromium.launch, newContext, newPage
Initialize ==
  /\ pc = "initialize"
  /\ \/ /\ browser' = TRUE
        /\ page' = TRUE
        /\ pc' = "xai1"
        /\ error' = error
     \/ /\ browser' \in BOOLEAN    \* launch, or newContext/newPage after it, throws
        /\ page' = FALSE
        /\ Throw("initialize")
  /\ UNCHANGED <<people, seen, idx, newsApiKey, exported>>
  /\ UNCHANGED clientVars

\* scrapeXAISite(): one pass of the loop over the two urls
XaiUrl == [xai1 |-> UrlXai, xai2 |-> UrlXaiCompany]
XaiNext == [xai1 |-> "xai2", xai2 |-> "org"]

ScrapeXAISite ==
  /\ pc \in {"xai1", "xai2"}
  /\ IF ~page
     THEN /\ pc' = "org"
          /\ people' = people
     ELSE /\ pc' = XaiNext[pc]
          /\ \/ \E cards \in SeqsUpTo(XaiCards, MaxBatch) :
                  LET pagePeople == XaiPagePeople(cards, XaiUrl[pc])
                  IN /\ Len(people) + Len(pagePeople) <= MaxPeople
                     /\ people' = people \o pagePeople
             \/ people' = people      \* goto or evaluate throws: caught, next url
  /\ UNCHANGED <<seen, idx, browser, page, newsApiKey, error, exported>>
  /\ UNCHANGED clientVars

\* fetchGitHubOrgMembers(): the request for the member list
FetchGitHubOrgMembers ==
  /\ pc = "org"
  /\ \/ /\ pc' = "orgLoop"         \* res.ok
        /\ error' = error
     \/ /\ pc' = "contrib"         \* !res.ok: return
        /\ error' = error
     \/ Throw("fetchGitHubOrgMembers")   \* fetch or res.json() rejects: no try/catch
  /\ UNCHANGED <<people, seen, idx, browser, page, newsApiKey, exported>>
  /\ UNCHANGED clientVars

\* fetchGitHubOrgMembers(): one member of the loop, or its end
OrgMembersLoop ==
  /\ pc = "orgLoop"
  /\ \/ \E user \in GitHubUsers :
          /\ Len(people) < MaxPeople
          /\ people' = Append(people, OrgMemberPerson(user))
          /\ pc' = pc
          /\ error' = error
     \/ /\ people' = people
        /\ pc' = "contrib"
        /\ error' = error
     \/ /\ people' = people
        /\ Throw("fetchGitHubOrgMembers")
  /\ UNCHANGED <<seen, idx, browser, page, newsApiKey, exported>>
  /\ UNCHANGED clientVars

\* fetchGitHubContributors(): one contributor of one repo, or the end of the
\* loops (also reached through the catch of the method)
FetchGitHubContributors ==
  /\ pc = "contrib"
  /\ \/ \E user \in GitHubUsers :
          /\ Len(people) < MaxPeople
          /\ people' = Append(people, ContributorPerson(user))
          /\ pc' = pc
     \/ /\ people' = people
        /\ pc' = "openalex"
  /\ UNCHANGED <<seen, idx, browser, page, newsApiKey, error, exported>>
  /\ UNCHANGED clientVars

\* fetchOpenAlexResearchers()
FetchOpenAlexResearchers ==
  /\ pc = "openalex"
  /\ pc' = "press"
  /\ \/ \E authors \in SeqsUpTo(OpenAlexAuthors, MaxBatch) :
          LET found == OpenAlexPeople(authors)
          IN /\ Len(people) + Len(found) <= MaxPeople
             /\ people' = people \o found
     \/ people' = people     \* !res.ok, or an exception caught by the method
  /\ UNCHANGED <<seen, idx, browser, page, newsApiKey, error, exported>>
  /\ UNCHANGED clientVars

DistinctNames(entries) ==
  \A i, j \in 1..Len(entries) : entries[i].name = entries[j].name => i = j

\* fetchPressMentions()
FetchPressMentions ==
  /\ pc = "press"
  /\ pc' = "export"
  /\ IF ~newsApiKey
     THEN people' = people
     ELSE \/ \E entries \in SeqsUpTo(PressMentions, MaxBatch) :
               LET found == PressPeople(entries)
               IN /\ DistinctNames(entries)
                  /\ Len(people) + Len(found) <= MaxPeople
                  /\ people' = people \o found
          \/ people' = people     \* an exception caught by the method
  /\ UNCHANGED <<seen, idx, browser, page, newsApiKey, error, exported>>
  /\ UNCHANGED clientVars

\* exportResults() calls deduplicatePeople(): const seen = new Map()
ExportResults ==
  /\ pc = "export"
  /\ pc' = "dedup"
  /\ seen' = <<>>
  /\ idx' = 0
  /\ UNCHANGED <<people, browser, page, newsApiKey, error, exported>>
  /\ UNCHANGED clientVars

\* deduplicatePeople(): one iteration of the loop over this.people
DedupStep ==
  /\ pc = "dedup"
  /\ idx < Len(people)
  /\ seen' = DedupIteration(seen, people[idx + 1])
  /\ idx' = idx + 1
  /\ UNCHANGED <<pc, people, browser, page, newsApiKey, error, exported>>
  /\ UNCHANGED clientVars

\* the Map values taken before the loop has reached the last person
DedupEndEarly ==
  /\ pc = "dedup"
  /\ idx <= Len(people)
  /\ people' = MapValues(seen)
  /\ pc' = "write"
  /\ UNCHANGED <<seen, idx, browser, page, newsApiKey, error, exported>>
  /\ UNCHANGED clientVars

\* deduplicatePeople(): this.people = Array.from(seen.values())
DedupEnd ==
  /\ pc = "dedup"
  /\ idx = Len(people)
  /\ people' = MapValues(seen)
  /\ pc' = "write"
  /\ UNCHANGED <<seen, idx, browser, page, newsApiKey, error, exported>>
  /\ UNCHANGED clientVars

\* exportResults(): csvWriter.writeRecords and fs.writeFileSync
WriteRecords ==
  /\ pc = "write"
  /\ \/ /\ exported' = TRUE
        /\ pc' = "close"
        /\ error' = error
     \/ /\ exported' \in BOOLEAN   \* the csv or the summary cannot be written
        /\ Throw("exportResults")
  /\ UNCHANGED <<people, seen, idx, browser, page, newsApiKey>>
  /\ UNCHANGED clientVars

\* a catch that ends main, as if there were no finally block
CatchWithoutFinally ==
  /\ pc = "catch"
  /\ pc' = "done"
  /\ UNCHANGED <<people, seen, idx, browser, page, newsApiKey, error, exported>>
  /\ UNCHANGED clientVars

\* main: catch (error) { console.error(...) }
Catch ==
  /\ pc = "catch"
  /\ pc' = "close"
  /\ UNCHANGED <<people, seen, idx, browser, page, newsApiKey, error, exported>>
  /\ UNCHANGED clientVars

\* main: finally { await mapper.close() }
Close ==
  /\ pc = "close"
  /\ browser' = FALSE
  /\ pc' = "done"
  /\ UNCHANGED <<people, seen, idx, page, newsApiKey, error, exported>>
  /\ UNCHANGED clientVars

Next ==
  \/ Initialize
  \/ ScrapeXAISite
  \/ FetchGitHubOrgMembers
  \/ OrgMembersLoop
  \/ FetchGitHubContributors
  \/ FetchOpenAlexResearchers
  \/ FetchPressMentions
  \/ ExportResults
  \/ DedupStep
  \/ DedupEnd
  \/ WriteRecords
  \/ Catch
  \/ Close

Spec == Init /\ [][Next]_vars

(***************************************************************************)
(* The exported class driven through its public methods: initialize(),     *)
(* the connectors in any order and any number of times, then               *)
(* exportResults() and close().  main leaves scrapeTwitterMentions        *)
(* commented out and never calls fetchGitHubSources; a caller of the       *)
(* class can.                                                              *)
(***************************************************************************)
MaxCalls == 2

UrlJane == <<"g", "/", "j", "a", "n", "e">>
UrlJohn1 == <<"g", "/", "j", "o", "h", "n", "1">>
UrlJohn2 == <<"g", "/", "j", "o", "h", "n", "2">>
UrlBlank == <<"g", "/", "b", "l", "a", "n", "k">>
UrlHome == <<"a", "n", "o", "n", ".", "d", "e", "v">>
UrlTweet == <<"t", "/", "g", "r", "o", "k", "f", "a", "n">>

NameJaneDoe == <<"J", "a", "n", "e", " ", "D", "o", "e">>
NameJohnSmith == <<"J", "o", "h", "n", " ", "S", "m", "i", "t", "h">>
EvidenceJane == <<"r", "e", "s", "e", "a", "r", "c", "h", " ", "s", "c", "i", "e", "n", "t", "i", "s", "t", " ", "w", "o", "r", "k", "i", "n", "g", " ", "o", "n", " ", "m", "l">>
\* a bio that holds the nine keywords
EvidenceAll ==
  <<"A", "I", " ", "r", "e", "s", "e", "a", "r", "c", "h", " ", "s", "c", "i", "e", "n", "t", "i", "s", "t", ":", " ", "m", "a", "c", "h", "i", "n", "e", " ">> \o
  <<"l", "e", "a", "r", "n", "i", "n", "g", " ", "(", "M", "L", ")", ",", " ", "d", "e", "e", "p", " ", "l", "e", "a", "r", "n", "i", "n", "g", ",", " ">> \o
  <<"N", "L", "P", ",", " ", "v", "i", "s", "i", "o", "n", ",", " ", "r", "o", "b", "o", "t", "i", "c", "s">>

\* GET /users/jane answers: the profile as first read, and as read again
\* with another spelling of the name and nothing else filled in
UserJaneA ==
  [login |-> <<"j", "a", "n", "e">>, name |-> NameJaneDoe,
   location |-> <<"P", "a", "l", "o", " ", "A", "l", "t", "o", ",", " ", "C", "A">>,
   bio |-> EvidenceJane, blog |-> <<>>, html_url |-> UrlJane]

UserJaneB ==
  [login |-> <<"j", "a", "n", "e">>, name |-> <<"j", "a", "n", "e", " ", "d", "o", "e">>,
   location |-> <<>>,
   bio |-> <<>>, blog |-> <<>>, html_url |-> UrlJane]

\* GET /users/{login} answers: the two profiles of jane, two accounts with
\* one display name, an account whose display name is blanks at one request
\* and filled in at another, and an answer that carries a blog but no
\* html_url
MapperUsers == {
  UserJaneA,
  UserJaneB,
  [login |-> <<"j", "o", "h", "n", "1">>, name |-> NameJohnSmith,
   location |-> <<"B", "o", "s", "t", "o", "n">>,
   bio |-> <<"M", "a", "c", "h", "i", "n", "e", " ", "L", "e", "a", "r", "n", "i", "n", "g">>, blog |-> <<>>, html_url |-> UrlJohn1],
  [login |-> <<"j", "o", "h", "n", "2">>, name |-> NameJohnSmith,
   location |-> <<>>,
   bio |-> EvidenceAll, blog |-> <<>>, html_url |-> UrlJohn2],
  [login |-> <<"b", "l", "a", "n", "k">>, name |-> <<" ", " ">>,
   location |-> <<>>,
   bio |-> <<>>, blog |-> <<>>, html_url |-> UrlBlank],
  [login |-> <<"b", "l", "a", "n", "k">>, name |-> <<"B", "o", " ", "L", "i">>,
   location |-> <<"B", "e", "r", "k", "e", "l", "e", "y">>,
   bio |-> <<"C", "h", "e", "f">>, blog |-> <<>>, html_url |-> UrlBlank],
  [login |-> <<"a", "n", "o", "n">>, name |-> <<>>,
   location |-> <<>>,
   bio |-> <<>>, blog |-> UrlHome, html_url |-> <<>>] }

\* data.includes.users of the Twitter search
TwitterUsers == {
  [username |-> <<"g", "r", "o", "k", "f", "a", "n">>, name |-> <<>>,
   location |-> <<"A", "u", "s", "t", "i", "n">>] }

\* tweets found on the search page whose text includes 'xai'
Tweets == {
  [author |-> <<"g", "r", "o", "k", "f", "a", "n">>, url |-> UrlTweet] }

\* /research|scientist|ml|ai|deep learning|nlp|vision|robotics/
researchPattern ==
  [i \in 1..8 |-> researchKeywords[IF i < 3 THEN i ELSE i + 1]]

\* fetchOrgContributors: the person built for one contributor
OrgContributorPerson(user) ==
  LET bio == ToLowerCase(user.bio)
      name == Trim(Or(user.name, user.login))
      location == Trim(user.location)
      researchLike == Some(researchPattern, bio)
  IN Person(name, location,
            IF location # <<>>
            THEN (IF Includes(ToLowerCase(location),
                              <<"p","a","l","o"," ","a","l","t","o">>)
                  THEN "high" ELSE "medium")
            ELSE "low",
            user.html_url, <<>>, user.blog, <<>>, <<user.html_url>>,
            researchLike,
            IF researchLike THEN 6 * ScoreTenth ELSE 3 * ScoreTenth)

\* fetchTwitterAPI: the person pushed for one user
TwitterApiPerson(user) ==
  Person(Or(user.name, user.username), user.location,
         IF user.location # <<>> THEN "medium" ELSE "low",
         <<>>, <<>>, <<>>, <<>>,
         <<<<"t", "/">> \o user.username>>, FALSE, 3 * ScoreTenth)

\* scrapeTwitterMentions without a token: the person pushed for one tweet
TweetPerson(tweet) ==
  Person(tweet.author, <<>>, "low", <<>>, <<>>, <<>>, <<>>,
         <<tweet.url>>, FALSE, 2 * ScoreTenth)

InitMapper ==
  /\ pc = "api"
  /\ people = <<>>
  /\ seen = <<>>
  /\ idx = 0
  /\ browser = FALSE
  /\ page = FALSE
  /\ newsApiKey = FALSE
  /\ error = "none"
  /\ exported = FALSE
  /\ ClientsIdle

\* initialize() succeeding
CallInitialize ==
  /\ pc = "api"
  /\ ~browser
  /\ browser' = TRUE
  /\ page' = TRUE
  /\ UNCHANGED <<pc, people, seen, idx, newsApiKey, error, exported>>
  /\ UNCHANGED clientVars

\* fetchGitHubOrgMembers() finding one member
CallFetchGitHubOrgMembers ==
  /\ pc = "api"
  /\ Len(people) < MaxCalls
  /\ \E user \in MapperUsers : people' = Append(people, OrgMemberPerson(user))
  /\ UNCHANGED <<pc, seen, idx, browser, page, newsApiKey, error, exported>>
  /\ UNCHANGED clientVars

\* fetchGitHubContributors() finding one contributor
CallFetchGitHubContributors ==
  /\ pc = "api"
  /\ Len(people) < MaxCalls
  /\ \E user \in MapperUsers : people' = Append(people, ContributorPerson(user))
  /\ UNCHANGED <<pc, seen, idx, browser, page, newsApiKey, error, exported>>
  /\ UNCHANGED clientVars

\* fetchGitHubSources(): fetchOrgContributors returning one contributor
CallFetchGitHubSources ==
  /\ pc = "api"
  /\ Len(people) < MaxCalls
  /\ \E user \in MapperUsers : people' = Append(people, OrgContributorPerson(user))
  /\ UNCHANGED <<pc, seen, idx, browser, page, newsApiKey, error, exported>>
  /\ UNCHANGED clientVars

\* scrapeTwitterMentions(): one user from the API when TWITTER_BEARER_TOKEN
\* is set, one tweet scraped from the search page when it is not
CallScrapeTwitterMentions ==
  /\ pc = "api"
  /\ page
  /\ Len(people) < MaxCalls
  /\ \/ \E user \in TwitterUsers : people' = Append(people, TwitterApiPerson(user))
     \/ \E tweet \in Tweets : people' = Append(people, TweetPerson(tweet))
  /\ UNCHANGED <<pc, seen, idx, browser, page, newsApiKey, error, exported>>
  /\ UNCHANGED clientVars

\* the caller goes on to exportResults()
CallExportResults ==
  /\ pc = "api"
  /\ pc' = "export"
  /\ UNCHANGED <<people, seen, idx, browser, page, newsApiKey, error, exported>>
  /\ UNCHANGED clientVars

\* the caller calls exportResults() once more after it has returned
CallExportResultsAgain ==
  /\ pc = "close"
  /\ exported
  /\ error = "none"
  /\ pc' = "export"
  /\ UNCHANGED <<people, seen, idx, browser, page, newsApiKey, error, exported>>
  /\ UNCHANGED clientVars

NextMapper ==
  \/ CallInitialize
  \/ CallFetchGitHubOrgMembers
  \/ CallFetchGitHubContributors
  \/ CallFetchGitHubSources
  \/ CallScrapeTwitterMentions
  \/ CallExportResults
  \/ CallExportResultsAgain
  \/ ExportResults
  \/ DedupStep
  \/ DedupEnd
  \/ WriteRecords
  \/ Catch
  \/ Close

SpecMapper == InitMapper /\ [][NextMapper]_vars

(***************************************************************************)
(* scraper-researchers.ts: ResearcherFocusedScraper and its main.  In the  *)
(* specifications of this program `people` is this.researchers and `seen`  *)
(* the Map of deduplicateResearchers.                                      *)
(***************************************************************************)
MaxResearchers == 3

\* what the profile page of a contributor of xai-org/grok-1 shows
GrokProfiles == {
  [username |-> <<"a", "n", "n">>, name |-> <<"A", "n", "n", " ", "L", "e", "e">>,
   bio |-> <<"G", "r", "o", "k", " ", "a", "t", " ", "x", "A", "I">>, location |-> <<"P", "a", "l", "o", " ", "A", "l", "t", "o">>,
   twitter |-> <<"x", ".", "c", "o", "m", "/", "a", "n", "n", "l">>],
  [username |-> <<"a", "l">>, name |-> <<"A", "N", "N", " ", "L", "E", "E">>,
   bio |-> <<"x", ".", "a", "i">>, location |-> <<>>,
   twitter |-> <<>>],
  [username |-> <<"b", "o", "b">>, name |-> <<>>,
   bio |-> <<"R", "u", "s", "t">>, location |-> <<"B", "o", "s", "t", "o", "n">>,
   twitter |-> <<>>] }

\* the user cells of a Twitter search
TwitterProfiles == {
  [username |-> <<"a", "n", "n", "l">>, name |-> <<"a", "n", "n", " ", "l", "e", "e">>, bio |-> <<>>],
  [username |-> <<"l", "e", "e">>, name |-> <<"A", "n", "n", " ", "L", "e", "e">>, bio |-> <<>>] }

Researcher(name, location, github, twitter, source, sourceUrl, confidence, area) ==
  [name |-> name, location |-> location, githubUsername |-> github,
   twitterUsername |-> twitter, source |-> source, sourceUrl |-> sourceUrl,
   confidence |-> confidence, researchArea |-> area]

\* url.split('/').pop()
LastSegment(url) ==
  LET slashes == {i \in 1..Len(url) : url[i] = "/"}
  IN IF slashes = {} THEN url
     ELSE SubSeq(url, (CHOOSE i \in slashes : \A j \in slashes : j <= i) + 1, Len(url))

\* the bio mentions xAI
MentionsXai(bio) ==
  LET bioLower == ToLowerCase(bio)
  IN \/ Includes(bioLower, <<"x", "a", "i">>)
     \/ Includes(bioLower, <<"x", ".", "a", "i">>)
     \/ Includes(bioLower, <<"g", "r", "o", "k">>)

GrokResearcher(profile) ==
  Researcher(Or(profile.name, profile.username), profile.location,
             profile.username, LastSegment(profile.twitter),
             "GitHub - Grok Contributor", <<"g", "h", "/">> \o profile.username,
             "high", profile.bio)

TwitterResearcher(profile) ==
  Researcher(profile.name, <<>>, <<>>, profile.username,
             "Twitter/X", <<"t", "/">> \o profile.username,
             "medium", profile.bio)

\* this.researchers.find(r => r.twitterUsername === profile.username)
FindByTwitterUsername(researchers, username) ==
  \E i \in 1..Len(researchers) : researchers[i].twitterUsername = username

\* this.researchers after one contributor profile has been read
PushGrok(researchers, profile) ==
  IF MentionsXai(profile.bio) THEN Append(researchers, GrokResearcher(profile))
  ELSE researchers

\* this.researchers after one user cell has been read
PushTwitter(researchers, profile) ==
  IF ~FindByTwitterUsername(researchers, profile.username)
  THEN Append(researchers, TwitterResearcher(profile))
  ELSE researchers

ResearcherKey(researcher) == Trim(ToLowerCase(researcher.name))

\* a 'high' record replaces the stored record, also a stored 'high' one
DeduplicateResearchersLastHigh(s, researcher) ==
  LET key == ResearcherKey(researcher)
  IN IF ~HasKey(s, key) THEN MapSet(s, key, researcher)
     ELSE IF researcher.confidence = "high" THEN MapSet(s, key, researcher)
     ELSE s

\* deduplicateResearchers: one iteration of the for-of loop
DeduplicateResearchersIteration(s, researcher) ==
  LET key == ResearcherKey(researcher)
  IN IF ~HasKey(s, key) THEN MapSet(s, key, researcher)
     ELSE IF researcher.confidence = "high" /\ Get(s, key).confidence # "high"
          THEN MapSet(s, key, researcher)
     ELSE s

\* the predicate of filterByPaloAlto
InPaloAlto(r) ==
  \/ Includes(ToLowerCase(r.location), <<"p","a","l","o"," ","a","l","t","o">>)
  \/ Includes(ToLowerCase(r.location), <<"b","a","y"," ","a","r","e","a">>)
  \/ r.location = <<>>

filterByPaloAlto == SelectSeq(people, InPaloAlto)

InitScraperMain ==
  /\ pc = "s_initialize"
  /\ people = <<>>
  /\ seen = <<>>
  /\ idx = 0
  /\ browser = FALSE
  /\ page = FALSE
  /\ newsApiKey = FALSE
  /\ error = "none"
  /\ exported = FALSE
  /\ ClientsIdle

ScraperThrow(call) ==
  /\ error' = call
  /\ pc' = "s_catch"

\* main: initialize()
ScraperInitialize ==
  /\ pc = "s_initialize"
  /\ \/ /\ browser' = TRUE
        /\ page' = TRUE
        /\ pc' = "s_grok"
        /\ error' = error
     \/ /\ browser' \in BOOLEAN    \* launch, or newContext/newPage after it, throws
        /\ page' = FALSE
        /\ ScraperThrow("initialize")
  /\ UNCHANGED <<people, seen, idx, newsApiKey, exported>>
  /\ UNCHANGED clientVars

\* main: scrapeGitHubGrokContributors(), one contributor of the loop, or
\* its end (also reached through the catch of the method)
ScrapeGitHubGrokContributors ==
  /\ pc = "s_grok"
  /\ \/ \E profile \in GrokProfiles :
          /\ Len(people) < MaxResearchers
          /\ people' = PushGrok(people, profile)
          /\ pc' = pc
     \/ /\ people' = people
        /\ pc' = "s_twitter"
  /\ UNCHANGED <<seen, idx, browser, page, newsApiKey, error, exported>>
  /\ UNCHANGED clientVars

\* main: searchTwitterForXAIResearchers(), one user cell, or the end
SearchTwitterForXAIResearchers ==
  /\ pc = "s_twitter"
  /\ \/ \E profile \in TwitterProfiles :
          /\ Len(people) < MaxResearchers
          /\ people' = PushTwitter(people, profile)
          /\ pc' = pc
     \/ /\ people' = people
        /\ pc' = "s_careers"
  /\ UNCHANGED <<seen, idx, browser, page, newsApiKey, error, exported>>
  /\ UNCHANGED clientVars

\* main: analyzeXAICareersPage(): logs, pushes nothing, catches its errors
AnalyzeXAICareersPage ==
  /\ pc = "s_careers"
  /\ pc' = "s_conf"
  /\ UNCHANGED <<people, seen, idx, browser, page, newsApiKey, error, exported>>
  /\ UNCHANGED clientVars

\* main: searchForConferencePresentations(): the same
SearchForConferencePresentations ==
  /\ pc = "s_conf"
  /\ pc' = "s_export"
  /\ UNCHANGED <<people, seen, idx, browser, page, newsApiKey, error, exported>>
  /\ UNCHANGED clientVars

\* exportResults() calls deduplicateResearchers(): const seen = new Map()
ScraperExportResults ==
  /\ pc = "s_export"
  /\ pc' = "s_dedup"
  /\ seen' = <<>>
  /\ idx' = 0
  /\ UNCHANGED <<people, browser, page, newsApiKey, error, exported>>
  /\ UNCHANGED clientVars

\* deduplicateResearchers(): one iteration of the loop
DeduplicateResearchersStep ==
  /\ pc = "s_dedup"
  /\ idx < Len(people)
  /\ seen' = DeduplicateResearchersIteration(seen, people[idx + 1])
  /\ idx' = idx + 1
  /\ UNCHANGED <<pc, people, browser, page, newsApiKey, error, exported>>
  /\ UNCHANGED clientVars

\* deduplicateResearchers(): this.researchers = Array.from(seen.values())
DeduplicateResearchersEnd ==
  /\ pc = "s_dedup"
  /\ idx = Len(people)
  /\ people' = MapValues(seen)
  /\ pc' = "s_write"
  /\ UNCHANGED <<seen, idx, browser, page, newsApiKey, error, exported>>
  /\ UNCHANGED clientVars

\* exportResults(): csvWriter.writeRecords and fs.writeFileSync
ScraperWriteRecords ==
  /\ pc = "s_write"
  /\ \/ /\ exported' = TRUE
        /\ pc' = "s_close"
        /\ error' = error
     \/ /\ exported' \in BOOLEAN   \* the csv or the list cannot be written
        /\ ScraperThrow("exportResults")
  /\ UNCHANGED <<people, seen, idx, browser, page, newsApiKey>>
  /\ UNCHANGED clientVars

\* main: catch (error) { console.error(...) }
ScraperCatch ==
  /\ pc = "s_catch"
  /\ pc' = "s_close"
  /\ UNCHANGED <<people, seen, idx, browser, page, newsApiKey, error, exported>>
  /\ UNCHANGED clientVars

\* main: finally { await scraper.close() }
ScraperClose ==
  /\ pc = "s_close"
  /\ browser' = FALSE
  /\ pc' = "s_done"
  /\ UNCHANGED <<people, seen, idx, page, newsApiKey, error, exported>>
  /\ UNCHANGED clientVars

NextScraperMain ==
  \/ ScraperInitialize
  \/ ScrapeGitHubGrokContributors
  \/ SearchTwitterForXAIResearchers
  \/ AnalyzeXAICareersPage
  \/ SearchForConferencePresentations
  \/ ScraperExportResults
  \/ DeduplicateResearchersStep
  \/ DeduplicateResearchersEnd
  \/ ScraperWriteRecords
  \/ ScraperCatch
  \/ ScraperClose

(***************************************************************************)
(* The exported ResearcherFocusedScraper driven through its public         *)
(* methods: initialize(), the two scrapers that push researchers in any    *)
(* order and any number of times, then exportResults() and close().        *)
(***************************************************************************)
InitScraper ==
  /\ pc = "s_api"
  /\ people = <<>>
  /\ seen = <<>>
  /\ idx = 0
  /\ browser = FALSE
  /\ page = FALSE
  /\ newsApiKey = FALSE
  /\ error = "none"
  /\ exported = FALSE
  /\ ClientsIdle

\* initialize() succeeding
CallScraperInitialize ==
  /\ pc = "s_api"
  /\ ~browser
  /\ browser' = TRUE
  /\ page' = TRUE
  /\ UNCHANGED <<pc, people, seen, idx, newsApiKey, error, exported>>
  /\ UNCHANGED clientVars

\* scrapeGitHubGrokContributors() reading one contributor
CallScrapeGitHubGrokContributors ==
  /\ pc = "s_api"
  /\ page
  /\ Len(people) < MaxResearchers
  /\ \E profile \in GrokProfiles : people' = PushGrok(people, profile)
  /\ UNCHANGED <<pc, seen, idx, browser, page, newsApiKey, error, exported>>
  /\ UNCHANGED clientVars

\* searchTwitterForXAIResearchers() reading one user cell
CallSearchTwitterForXAIResearchers ==
  /\ pc = "s_api"
  /\ page
  /\ Len(people) < MaxResearchers
  /\ \E profile \in TwitterProfiles : people' = PushTwitter(people, profile)
  /\ UNCHANGED <<pc, seen, idx, browser, page, newsApiKey, error, exported>>
  /\ UNCHANGED clientVars

\* the caller goes on to exportResults()
CallScraperExportResults ==
  /\ pc = "s_api"
  /\ pc' = "s_export"
  /\ UNCHANGED <<people, seen, idx, browser, page, newsApiKey, error, exported>>
  /\ UNCHANGED clientVars

NextScraper ==
  \/ CallScraperInitialize
  \/ CallScrapeGitHubGrokContributors
  \/ CallSearchTwitterForXAIResearchers
  \/ CallScraperExportResults
  \/ ScraperExportResults
  \/ DeduplicateResearchersStep
  \/ DeduplicateResearchersEnd
  \/ ScraperWriteRecords
  \/ ScraperCatch
  \/ ScraperClose

SpecScraper == InitScraper /\ [][NextScraper]_vars

(***************************************************************************)
(* The two command-line programs: a run is one run of the main of          *)
(* part_000 or one run of the main of scraper-researchers.ts.  Each main   *)
(* is a chain of awaited calls over finite lists with timeouts on the      *)
(* page loads, so a run that can take a step takes one: weak fairness of   *)
(* the next-state relation.                                                *)
(***************************************************************************)
InitMains == Init \/ InitScraperMain

NextMains == Next \/ NextScraperMain

SpecMains == InitMains /\ [][NextMains]_vars /\ WF_vars(NextMains)

(***************************************************************************)
(* part_002: HunterClient, PeopleDataLabsClient and MultiAPIClient, driven *)
(* through their public methods.  A response is what axios.get settles to: *)
(* "rejected" (network error, 4xx, 5xx), "malformed" (a body without the   *)
(* data the code dereferences) or the list of items of the body.           *)
(***************************************************************************)
MaxRequests == 3

ApiKey == <<"k">>

HunterEmails == {
  [first_name |-> <<"A", "n", "n">>, last_name |-> <<"L", "e", "e">>,
   value |-> <<"a", "@", "x", ".", "a", "i">>, type |-> "personal", confidence |-> 95],
  [first_name |-> <<>>, last_name |-> <<>>,
   value |-> <<"h", "i", "@", "x", ".", "a", "i">>, type |-> "generic", confidence |-> 80] }

HunterResponses ==
  {[kind |-> "rejected", items |-> <<>>], [kind |-> "malformed", items |-> <<>>]}
  \cup {[kind |-> "items", items |-> emails] : emails \in SeqsUpTo(HunterEmails, 1)}

PdlPeople == {
  [full_name |-> <<"B", "o", " ", "L", "i">>, work_email |-> <<>>,
   emails |-> <<[address |-> <<"b", "o", "@", "l", "i">>]>>,
   job_company_name |-> <<"x", "A", "I">>] }

PdlResponses ==
  {[kind |-> "rejected", items |-> <<>>], [kind |-> "malformed", items |-> <<>>]}
  \cup {[kind |-> "items", items |-> ps] : ps \in SeqsUpTo(PdlPeople, 1)}

hasKey(apiKey) == Len(apiKey) > 0

\* the callback of emails.map in domainSearch
HunterPerson(email) ==
  [name |-> Trim(Or(email.first_name, <<>>) \o <<" ">> \o Or(email.last_name, <<>>)),
   email |-> email.value,
   emailStatus |-> IF email.type = "personal" THEN "verified" ELSE "generic",
   company |-> <<"x", "A", "I">>,
   source |-> "Hunter.io",
   confidence |-> IF email.confidence > 90 THEN "high"
                  ELSE IF email.confidence > 70 THEN "medium" ELSE "low"]

\* the callback of people.map in searchPeople
PdlPerson(p) ==
  [name |-> p.full_name,
   email |-> Or(p.work_email, IF Len(p.emails) > 0 THEN p.emails[1].address ELSE <<>>),
   emailStatus |-> IF p.work_email # <<>> THEN "verified" ELSE "guessed",
   company |-> p.job_company_name,
   source |-> "PeopleDataLabs",
   confidence |-> "high"]

\* the try block of domainSearch: the request and the mapping of the body
domainSearchTry(response) ==
  IF response.kind = "items"
  THEN [threw |-> FALSE,
        value |-> [i \in 1..Len(response.items) |-> HunterPerson(response.items[i])]]
  ELSE [threw |-> TRUE, value |-> <<>>]

\* the try block of searchPeople
searchPeopleTry(response) ==
  IF response.kind = "items"
  THEN [threw |-> FALSE,
        value |-> [i \in 1..Len(response.items) |-> PdlPerson(response.items[i])]]
  ELSE [threw |-> TRUE, value |-> <<>>]

\* a domainSearch whose exceptions reach the caller
domainSearchWithoutCatch(apiKey, response) ==
  IF ~hasKey(apiKey)
  THEN [threw |-> FALSE, value |-> <<>>, requests |-> <<>>]
  ELSE [threw |-> domainSearchTry(response).threw,
        value |-> domainSearchTry(response).value,
        requests |-> <<"hunter">>]

\* HunterClient.domainSearch: what it returns, whether it throws, and the
\* requests it issues
domainSearch(apiKey, response) ==
  IF ~hasKey(apiKey)
  THEN [threw |-> FALSE, value |-> <<>>, requests |-> <<>>]
  ELSE [threw |-> FALSE,
        value |-> IF domainSearchTry(response).threw THEN <<>>
                  ELSE domainSearchTry(response).value,
        requests |-> <<"hunter">>]

\* PeopleDataLabsClient.searchPeople
searchPeople(apiKey, response) ==
  IF ~hasKey(apiKey)
  THEN [threw |-> FALSE, value |-> <<>>, requests |-> <<>>]
  ELSE [threw |-> FALSE,
        value |-> IF searchPeopleTry(response).threw THEN <<>>
                  ELSE searchPeopleTry(response).value,
        requests |-> <<"pdl">>]

NotCalled == [threw |-> FALSE, value |-> <<>>, requests |-> <<>>]

\* MultiAPIClient.findXAIResearchers
findXAIResearchers(hunterResponse, pdlResponse) ==
  LET hunterResults == IF hasKey(hunterKey) THEN domainSearch(hunterKey, hunterResponse)
                       ELSE NotCalled
      pdlResults == IF hunterResults.threw THEN NotCalled
                    ELSE IF hasKey(pdlKey) THEN searchPeople(pdlKey, pdlResponse)
                    ELSE NotCalled
  IN [threw |-> hunterResults.threw \/ pdlResults.threw,
      value |-> hunterResults.value \o pdlResults.value,
      requests |-> hunterResults.requests \o pdlResults.requests]

\* the response of a request that was issued
ResponseOf(result, client, response) ==
  IF client \in {result.requests[i] : i \in 1..Len(result.requests)}
  THEN response ELSE NoResponse

\* new HunterClient(apiKey?), new PeopleDataLabsClient(apiKey?): the key
\* given, or the one of the environment, or ''
InitClients ==
  /\ pc = "c_api"
  /\ people = <<>>
  /\ seen = <<>>
  /\ idx = 0
  /\ browser = FALSE
  /\ page = FALSE
  /\ newsApiKey = FALSE
  /\ error = "none"
  /\ exported = FALSE
  /\ hunterKey \in {<<>>, ApiKey}
  /\ pdlKey \in {<<>>, ApiKey}
  /\ requests = <<>>
  /\ lastCall = [method |-> "none", hunter |-> NoResponse, pdl |-> NoResponse,
                 returned |-> <<>>]

\* hunter.domainSearch()
CallDomainSearch ==
  /\ pc = "c_api"
  /\ \E response \in HunterResponses :
       LET result == domainSearch(hunterKey, response)
       IN /\ Len(requests) + Len(result.requests) <= MaxRequests
          /\ requests' = requests \o result.requests
          /\ lastCall' = [method |-> "domainSearch",
                          hunter |-> ResponseOf(result, "hunter", response),
                          pdl |-> NoResponse,
                          returned |-> result.value]
          /\ error' = IF result.threw THEN "domainSearch" ELSE error
  /\ UNCHANGED <<pc, people, seen, idx, browser, page, newsApiKey, exported,
                 hunterKey, pdlKey>>

\* pdl.searchPeople()
CallSearchPeople ==
  /\ pc = "c_api"
  /\ \E response \in PdlResponses :
       LET result == searchPeople(pdlKey, response)
       IN /\ Len(requests) + Len(result.requests) <= MaxRequests
          /\ requests' = requests \o result.requests
          /\ lastCall' = [method |-> "searchPeople",
                          hunter |-> NoResponse,
                          pdl |-> ResponseOf(result, "pdl", response),
                          returned |-> result.value]
          /\ error' = IF result.threw THEN "searchPeople" ELSE error
  /\ UNCHANGED <<pc, people, seen, idx, browser, page, newsApiKey, exported,
                 hunterKey, pdlKey>>

\* multi.findXAIResearchers(), whose clients read the same environment
CallFindXAIResearchers ==
  /\ pc = "c_api"
  /\ \E hunterResponse \in HunterResponses, pdlResponse \in PdlResponses :
       LET result == findXAIResearchers(hunterResponse, pdlResponse)
       IN /\ Len(requests) + Len(result.requests) <= MaxRequests
          /\ requests' = requests \o result.requests
          /\ lastCall' = [method |-> "findXAIResearchers",
                          hunter |-> ResponseOf(result, "hunter", hunterResponse),
                          pdl |-> ResponseOf(result, "pdl", pdlResponse),
                          returned |-> result.value]
          /\ error' = IF result.threw THEN "findXAIResearchers" ELSE error
  /\ UNCHANGED <<pc, people, seen, idx, browser, page, newsApiKey, exported,
                 hunterKey, pdlKey>>

NextClients ==
  \/ CallDomainSearch
  \/ CallSearchPeople
  \/ CallFindXAIResearchers

SpecClients == InitClients /\ [][NextClients]_vars

(***************************************************************************)
(* exportResults after deduplicatePeople: the Bay Area subset              *)
(***************************************************************************)
bayAreaKeywords == <<
  <<"p","a","l","o"," ","a","l","t","o">>,
  <<"b","a","y"," ","a","r","e","a">>,
  <<"s","a","n"," ","f","r","a","n","c","i","s","c","o">>,
  <<"m","o","u","n","t","a","i","n"," ","v","i","e","w">>,
  <<"m","e","n","l","o"," ","p","a","r","k">>,
  <<"s","u","n","n","y","v","a","l","e">>,
  <<"r","e","d","w","o","o","d"," ","c","i","t","y">>,
  <<"c","u","p","e","r","t","i","n","o">>,
  <<"s","i","l","i","c","o","n"," ","v","a","l","l","e","y">>,
  <<"s","a","n"," ","j","o","s","e">>,
  <<"o","a","k","l","a","n","d">>,
  <<"b","e","r","k","e","l","e","y">>,
  <<"f","r","e","m","o","n","t">>,
  <<"s","a","n","t","a"," ","c","l","a","r","a">>,
  <<"s","f",",">>,
  <<"c","a","l","i","f","o","r","n","i","a">>,
  <<"c","a">> >>

\* the predicate of this.people.filter
InBayArea(p) == Some(bayAreaKeywords, ToLowerCase(p.location))

bayAreaPeople == SelectSeq(people, InBayArea)

(***************************************************************************)
(* Vocabulary of the properties                                            *)
(***************************************************************************)
\* deduplicatePeople is iterating: people[1..idx] have been folded into seen
Resolving == pc = "dedup"

Folded == 1..idx

\* the candidates folded into the identity stored under key
Members(key) == {i \in Folded : MergeKey(people[i]) = key}

\* i and j were placed in the same entry of the Map
SameIdentity(i, j) ==
  \E e \in 1..Len(seen) : i \in Members(seen[e].key) /\ j \in Members(seen[e].key)

NormalizedName(p) == Trim(ToLowerCase(p.name))

\* profile, academic and homepage link values of a record
IdentityLinks(p) == {p.githubUrl, p.openAlexUrl, p.homepageUrl} \ {<<>>}

\* the key deduplicatePeople is documented to use: GitHub/OpenAlex url, else name
DocumentedKey(p) ==
  IF p.githubUrl # <<>> THEN p.githubUrl
  ELSE IF p.openAlexUrl # <<>> THEN p.openAlexUrl
  ELSE NormalizedName(p)

(***************************************************************************)
(* C1 (as stated): two candidates are in the same identity iff they share  *)
(* a profile, academic or homepage link value, or neither has any link and *)
(* their lower-cased trimmed names are equal.                              *)
(***************************************************************************)
C1_SharedLinkOrName ==
  Resolving =>
    \A i, j \in Folded :
      SameIdentity(i, j) <=>
        \/ IdentityLinks(people[i]) \cap IdentityLinks(people[j]) # {}
        \/ /\ IdentityLinks(people[i]) = {}
           /\ IdentityLinks(people[j]) = {}
           /\ NormalizedName(people[i]) = NormalizedName(people[j])

(***************************************************************************)
(* C1 (amended): two candidates are in the same identity iff their merge   *)
(* keys are equal, the key being the GitHub url, else the OpenAlex url,    *)
(* else the lower-cased trimmed name; the homepage url, the location and   *)
(* the evidence are not part of it.                                        *)
(***************************************************************************)
C1_SameKeySameIdentity ==
  Resolving =>
    \A i, j \in Folded :
      SameIdentity(i, j) <=> DocumentedKey(people[i]) = DocumentedKey(people[j])

\* two candidates with differently written names merged into one identity, and two
\* candidates with a common homepage and different GitHub urls kept apart
C1_Witness ==
  /\ Resolving
  /\ \E i, j \in Folded :
       /\ SameIdentity(i, j)
       /\ people[i].name # people[j].name
  /\ \E i, j \in Folded :
       /\ ~SameIdentity(i, j)
       /\ people[i].homepageUrl # <<>>
       /\ people[i].homepageUrl = people[j].homepageUrl

(***************************************************************************)
(* C2: the researchScore of every candidate and of every identity is in    *)
(* [0, 1], whatever the number of merges.                                  *)
(***************************************************************************)
InUnitInterval(score) == 0 <= score /\ score <= ScoreOne

C2_ScoreInUnitInterval ==
  /\ \A i \in 1..Len(people) : InUnitInterval(people[i].researchScore)
  /\ \A e \in 1..Len(seen) : InUnitInterval(seen[e].person.researchScore)

\* an identity whose score was held at 1 by the cap of a merge
C2_Witness ==
  /\ Resolving
  /\ \E e \in 1..Len(seen) :
       /\ seen[e].person.researchScore = ScoreOne
       /\ Cardinality(Members(seen[e].key)) >= 2
       /\ \E i \in Members(seen[e].key) :
            people[i].researchScore + ScoreTenth > ScoreOne

(***************************************************************************)
(* C3: no failure of a connector reaches main: the exception that main     *)
(* catches never comes from a connector, and a run in which initialize and *)
(* the export itself did not fail ends with the records exported.          *)
(***************************************************************************)
C3_ConnectorFailureContained ==
  /\ error \notin ConnectorNames
  /\ (pc = "done" /\ error \notin {"initialize", "exportResults"}) => exported

(***************************************************************************)
(* C4: once the isResearchLike flag of an identity is true it stays true   *)
(* through every later merge.                                              *)
(***************************************************************************)
C4_RelevanceSticky ==
  [][\A e \in 1..Len(seen) :
       seen[e].person.isResearchLike =>
         /\ e <= Len(seen')
         /\ seen'[e].key = seen[e].key
         /\ seen'[e].person.isResearchLike]_vars

\* the candidate just merged is not research-like, the identity still is
C4_Witness ==
  /\ Resolving
  /\ idx >= 2
  /\ ~people[idx].isResearchLike
  /\ \E i \in 1..(idx - 1) :
       /\ MergeKey(people[i]) = MergeKey(people[idx])
       /\ people[i].isResearchLike
  /\ Get(seen, MergeKey(people[idx])).isResearchLike

(***************************************************************************)
(* C5: the locationConfidence of an identity never decreases in the order  *)
(* low < medium < high.                                                    *)
(***************************************************************************)
C5_ConfidenceNeverDecreases ==
  [][\A e \in 1..Len(seen) :
       /\ e <= Len(seen')
       /\ seen'[e].key = seen[e].key
       /\ confRank(seen'[e].person.locationConfidence)
            >= confRank(seen[e].person.locationConfidence)]_vars

\* the candidate just merged has a lower confidence than the identity keeps
C5_Witness ==
  /\ Resolving
  /\ idx >= 2
  /\ Cardinality(Members(MergeKey(people[idx]))) >= 2
  /\ people[idx].locationConfidence = "low"
  /\ Get(seen, MergeKey(people[idx])).locationConfidence = "high"

(***************************************************************************)
(* Folding candidates in another order                                     *)
(***************************************************************************)
LinkFields == {"githubUrl", "openAlexUrl", "homepageUrl", "xaiPageUrl"}

\* the identity that results from folding a, then b, which have the same key
MergeOf(a, b) == DedupFold(<<a, b>>)[1].person

\* the bijections of 1..n
ArrivalOrders(n) == Permutations(1..n)

Permuted(ps, f) == [i \in 1..Len(ps) |-> ps[f[i]]]

\* the candidates of the stream, before deduplicatePeople has replaced them
Stream == people

\* every connector has finished and deduplicatePeople is about to iterate
StreamComplete == pc = "dedup" /\ idx = 0

SameKeyPairs ==
  {ij \in (1..Len(Stream)) \X (1..Len(Stream)) :
     MergeKey(Stream[ij[1]]) = MergeKey(Stream[ij[2]])}

(***************************************************************************)
(* C6 (as stated): for two candidates A, B with the same merge key, A then *)
(* B and B then A give the same link fields, the same set of sources and   *)
(* the same isResearchLike.                                                *)
(***************************************************************************)
C6_PairOrderIrrelevant ==
  StreamComplete =>
    \A ij \in SameKeyPairs :
      LET ab == MergeOf(Stream[ij[1]], Stream[ij[2]])
          ba == MergeOf(Stream[ij[2]], Stream[ij[1]])
      IN /\ \A f \in LinkFields : ab[f] = ba[f]
         /\ SeqToSet(ab.otherSources) = SeqToSet(ba.otherSources)
         /\ ab.isResearchLike = ba.isResearchLike

(***************************************************************************)
(* C6 (amended): A then B and B then A give the same set of sources, the   *)
(* same isResearchLike, and the same value in every link field that A and  *)
(* B do not both carry with different values; a link field they disagree   *)
(* on takes the value of the candidate folded first.                       *)
(***************************************************************************)
C6_PairOrderUpToFirstSeen ==
  StreamComplete =>
    \A ij \in SameKeyPairs :
      LET a == Stream[ij[1]]
          b == Stream[ij[2]]
          ab == MergeOf(a, b)
          ba == MergeOf(b, a)
      IN /\ SeqToSet(ab.otherSources) = SeqToSet(ba.otherSources)
         /\ ab.isResearchLike = ba.isResearchLike
         /\ \A f \in LinkFields :
              IF a[f] # <<>> /\ b[f] # <<>> /\ a[f] # b[f]
              THEN ab[f] = a[f] /\ ba[f] = b[f]
              ELSE ab[f] = ba[f]

\* the run has merged two candidates that disagree on a link field and have
\* different sources, and a candidate that disagrees with them on isResearchLike
C6_Witness ==
  /\ Resolving
  /\ \E i, j, k \in Folded :
       /\ i < j
       /\ MergeKey(people[i]) = MergeKey(people[j])
       /\ MergeKey(people[i]) = MergeKey(people[k])
       /\ \E f \in LinkFields :
            /\ people[i][f] # <<>>
            /\ people[j][f] # <<>>
            /\ people[i][f] # people[j][f]
            /\ Get(seen, MergeKey(people[i]))[f] = people[i][f]
       /\ people[i].otherSources # people[j].otherSources
       /\ SeqToSet(people[i].otherSources) \cup SeqToSet(people[j].otherSources)
            \subseteq SeqToSet(Get(seen, MergeKey(people[i])).otherSources)
       /\ people[i].isResearchLike # people[k].isResearchLike
       /\ Get(seen, MergeKey(people[i])).isResearchLike

KeysOf(s) == {s[e].key : e \in 1..Len(s)}

StreamKeys == {MergeKey(Stream[i]) : i \in 1..Len(Stream)}

\* the candidates of one merge key, in arrival order
Group(key) == LET keyed(p) == MergeKey(p) = key IN SelectSeq(Stream, keyed)

\* the identity that results from folding the candidates of one key in order
IdentityOf(group) == DedupFold(group)[1].person

GroupsAreIndependent ==
  StreamComplete =>
    LET inOrder == DedupFold(Stream)
    IN /\ KeysOf(inOrder) = StreamKeys
       /\ \A key \in StreamKeys : Get(inOrder, key) = IdentityOf(Group(key))

(***************************************************************************)
(* C8 (as stated): for every arrival order of the candidates each identity *)
(* has the same researchScore, the same locationConfidence and the same    *)
(* isResearchLike.                                                         *)
(***************************************************************************)
C8_FoldOrderIrrelevant ==
  StreamComplete =>
    \A key \in StreamKeys :
      LET p == IdentityOf(Group(key))
      IN \A f \in ArrivalOrders(Len(Group(key))) :
           LET q == IdentityOf(Permuted(Group(key), f))
           IN /\ q.researchScore = p.researchScore
              /\ q.locationConfidence = p.locationConfidence
              /\ q.isResearchLike = p.isResearchLike

(***************************************************************************)
(* C8 (amended): for every arrival order of the candidates each identity   *)
(* has the same locationConfidence and the same isResearchLike, and the    *)
(* same researchScore when at most two candidates are merged into it; with *)
(* three or more candidates the researchScore may depend on the order.     *)
(***************************************************************************)
C8_FoldOrderUpToScore ==
  /\ GroupsAreIndependent
  /\ StreamComplete =>
       \A key \in StreamKeys :
         LET p == IdentityOf(Group(key))
         IN \A f \in ArrivalOrders(Len(Group(key))) :
              LET q == IdentityOf(Permuted(Group(key), f))
              IN /\ q.locationConfidence = p.locationConfidence
                 /\ q.isResearchLike = p.isResearchLike
                 /\ Len(Group(key)) <= 2 => q.researchScore = p.researchScore

\* the run has folded three candidates into one identity, two of them of
\* different score, confidence and relevance, and another arrival order of
\* the stream changes the score of that identity
C8_Witness ==
  /\ Resolving
  /\ idx = Len(people)
  /\ \E e \in 1..Len(seen) :
       /\ Cardinality(Members(seen[e].key)) = 3
       /\ \E i, j \in Members(seen[e].key) :
            /\ people[i].researchScore # people[j].researchScore
            /\ people[i].locationConfidence # people[j].locationConfidence
            /\ people[i].isResearchLike # people[j].isResearchLike
       /\ \E f \in ArrivalOrders(3) :
            IdentityOf(Permuted(Group(seen[e].key), f)).researchScore
              # seen[e].person.researchScore

(***************************************************************************)
(* C9 (as stated): the profile, academic and homepage links of an identity *)
(* are the union of those of the candidates merged into it.                *)
(***************************************************************************)
C9_LinksAreUnion ==
  Resolving =>
    \A e \in 1..Len(seen) :
      IdentityLinks(seen[e].person) =
        UNION {IdentityLinks(people[i]) : i \in Members(seen[e].key)}

(***************************************************************************)
(* C9 (amended): each link field of an identity is the value of the first  *)
(* merged candidate that carries the field; a link value of a later        *)
(* candidate is kept only if no earlier one carried that field, so every   *)
(* link of the identity was observed on a merged candidate but a differing *)
(* later value of the same field is dropped.                               *)
(***************************************************************************)
FirstCarrying(field, members) ==
  LET carrying == {i \in members : people[i][field] # <<>>}
  IN IF carrying = {} THEN <<>>
     ELSE people[CHOOSE i \in carrying : \A j \in carrying : i <= j][field]

C9_LinksFirstSeenPerField ==
  Resolving =>
    \A e \in 1..Len(seen) :
      /\ \A f \in {"githubUrl", "openAlexUrl", "homepageUrl"} :
           seen[e].person[f] = FirstCarrying(f, Members(seen[e].key))
      /\ IdentityLinks(seen[e].person) \subseteq
           UNION {IdentityLinks(people[i]) : i \in Members(seen[e].key)}

\* an identity that took its homepage from its second candidate and kept it
\* against a third candidate with another homepage
C9_Witness ==
  /\ Resolving
  /\ \E i, j, k \in Folded :
       /\ i < j
       /\ j < k
       /\ Members(MergeKey(people[i])) = {i, j, k}
       /\ people[i].homepageUrl = <<>>
       /\ people[j].homepageUrl # <<>>
       /\ people[k].homepageUrl # <<>>
       /\ people[k].homepageUrl # people[j].homepageUrl
       /\ Get(seen, MergeKey(people[i])).homepageUrl = people[j].homepageUrl

(***************************************************************************)
(* C10: the otherSources of every identity, created from one candidate or  *)
(* merged from several, hold no url twice and are the union of the         *)
(* otherSources of the candidates merged into it; the link values of an    *)
(* identity are values of its own link fields (a set by construction).     *)
(***************************************************************************)
NoDuplicates(s) == \A i, j \in 1..Len(s) : s[i] = s[j] => i = j

C11_NamesNeverBlank ==
  /\ \A i \in 1..Len(people) : Trim(people[i].name) # <<>>
  /\ \A e \in 1..Len(seen) : Trim(seen[e].person.name) # <<>>

(***************************************************************************)
(* C12: the location filter applied at export keeps exactly the identities *)
(* whose location confidence is at or above a tier threshold, or whose     *)
(* location is unknown: an identity without a location is always in the    *)
(* filtered subset.                                                        *)
(***************************************************************************)
Tiers == {"low", "medium", "high"}

Filtered == {bayAreaPeople[i] : i \in 1..Len(bayAreaPeople)}

C12_FilterKeepsConfidentOrUnknown ==
  pc = "write" =>
    \E tierThreshold \in Tiers :
      \A i \in 1..Len(people) :
        people[i] \in Filtered <=>
          \/ confRank(people[i].locationConfidence) >= confRank(tierThreshold)
          \/ people[i].location = <<>>

(***************************************************************************)
(* C13: the location of an identity is the location text of the first      *)
(* candidate merged into it that attains the highest location confidence   *)
(* among its candidates, so that location and confidence describe the      *)
(* same observation; the location changes only in a merge that strictly    *)
(* raises the confidence.                                                  *)
(***************************************************************************)
\* the first member whose confidence no member exceeds
FirstMostConfident(members) ==
  CHOOSE i \in members :
    /\ \A j \in members :
         confRank(people[j].locationConfidence) <= confRank(people[i].locationConfidence)
    /\ \A j \in members :
         confRank(people[j].locationConfidence) = confRank(people[i].locationConfidence)
           => i <= j

C13_LocationOfMostConfident ==
  Resolving =>
    \A e \in 1..Len(seen) :
      LET best == people[FirstMostConfident(Members(seen[e].key))]
      IN /\ seen[e].person.locationConfidence = best.locationConfidence
         /\ seen[e].person.location = best.location

(***************************************************************************)
(* C14 (as stated): the isResearchLike flag of an identity is true         *)
(* whenever its researchScore is above the relevance threshold; no         *)
(* identity has a score above the threshold and the flag false.  The       *)
(* threshold is the score computeResearchScore gives a text without any    *)
(* keyword: a text scores above it exactly when isResearchLike accepts it. *)
(***************************************************************************)
RelevanceThreshold == 2 * ScoreTenth

C14_RelevantAboveThreshold ==
  \A e \in 1..Len(seen) :
    seen[e].person.researchScore > RelevanceThreshold
      => seen[e].person.isResearchLike

(***************************************************************************)
(* C14 (amended): the isResearchLike flag of an identity is true exactly   *)
(* when the connector set the flag of at least one candidate merged into   *)
(* it; the score is not consulted, and merges raise the score of an        *)
(* identity whose flag stays false.                                        *)
(***************************************************************************)
C14_RelevantIffSomeMemberFlagged ==
  Resolving =>
    \A e \in 1..Len(seen) :
      seen[e].person.isResearchLike <=>
        \E i \in Members(seen[e].key) : people[i].isResearchLike

\* two candidates without the flag merged: the score has passed the
\* threshold, the flag is still false
C14_Witness ==
  /\ Resolving
  /\ \E e \in 1..Len(seen) :
       /\ Cardinality(Members(seen[e].key)) >= 2
       /\ \A i \in Members(seen[e].key) : ~people[i].isResearchLike
       /\ seen[e].person.researchScore > RelevanceThreshold
       /\ ~seen[e].person.isResearchLike

(***************************************************************************)
(* C15 (as stated): two candidates with different profile (GitHub) urls    *)
(* and the same display name are merged into one identity.                 *)
(***************************************************************************)
DifferentProfiles(i, j) ==
  /\ people[i].githubUrl # <<>>
  /\ people[j].githubUrl # <<>>
  /\ people[i].githubUrl # people[j].githubUrl

C15_SameNameMerges ==
  Resolving =>
    \A i, j \in Folded :
      DifferentProfiles(i, j) /\ people[i].name = people[j].name
        => SameIdentity(i, j)

(***************************************************************************)
(* C15 (amended): two candidates with different profile (GitHub) urls are  *)
(* never merged, whatever their display names: two "John Smith" with two   *)
(* profile urls stay two identities.                                       *)
(***************************************************************************)
C15_DifferentProfilesStayApart ==
  Resolving =>
    \A i, j \in Folded : DifferentProfiles(i, j) => ~SameIdentity(i, j)

\* the two John Smith resolved: two identities of that name
C15_Witness ==
  /\ Resolving
  /\ idx = Len(people)
  /\ \E i, j \in Folded :
       /\ DifferentProfiles(i, j)
       /\ people[i].name = NameJohnSmith
       /\ people[j].name = NameJohnSmith
       /\ Len(seen) = 2
       /\ seen[1].person.name = NameJohnSmith
       /\ seen[2].person.name = NameJohnSmith

(***************************************************************************)
(* C16: candidate A (name "Jane Doe", a profile url, location              *)
(* "Palo Alto, CA", evidence "research scientist working on ml") followed  *)
(* by candidate B (name "jane doe", the same profile url, no location, no  *)
(* evidence) resolve to one identity with name "Jane Doe", location        *)
(* confidence high, the research flag set, and score                       *)
(* min(1, computeResearchScore(evidence of A) + 0.1).                      *)
(***************************************************************************)
CandidateA == ContributorPerson(UserJaneA)
CandidateB == ContributorPerson(UserJaneB)

C16_JaneDoeScenario ==
  (Resolving /\ idx = Len(people) /\ people = <<CandidateA, CandidateB>>) =>
    /\ Len(seen) = 1
    /\ seen[1].person.name = NameJaneDoe
    /\ seen[1].person.locationConfidence = "high"
    /\ seen[1].person.isResearchLike
    /\ seen[1].person.researchScore =
         Min(ScoreOne, computeResearchScore(ToLowerCase(EvidenceJane)) + ScoreTenth)

\* A then B read by fetchGitHubContributors and folded: three of the nine
\* keywords are in the evidence of A, 3/9 + 0.2 + 0.1 is 57/90
C16_Witness ==
  /\ Resolving
  /\ idx = Len(people)
  /\ people = <<CandidateA, CandidateB>>
  /\ CandidateB.name # CandidateA.name
  /\ CandidateB.locationConfidence = "low"
  /\ ~CandidateB.isResearchLike
  /\ Len(seen) = 1
  /\ seen[1].person.researchScore = 57

(***************************************************************************)
(* C17: no partial merge is observed.  The resolution pass starts only     *)
(* when the last connector of the run has returned, nothing is appended to *)
(* the working set while it runs, it replaces the working set only when    *)
(* it has folded every candidate, and the export writes only after that.   *)
(***************************************************************************)
ConnectorPositions == {"xai1", "xai2", "orgLoop", "contrib", "openalex", "press"}

C17_ResolutionUninterrupted ==
  [][/\ (pc' = "dedup" /\ pc # "dedup") => (pc = "export" /\ idx' = 0 /\ seen' = <<>>)
     /\ (pc = "dedup" /\ pc' = "dedup") => (people' = people /\ idx' = idx + 1)
     /\ people' # people =>
          \/ pc \in ConnectorPositions /\ seen = <<>>
          \/ /\ pc = "dedup"
             /\ idx = Len(people)
             /\ people' = MapValues(DedupFold(people))
     /\ exported' # exported => (pc = "write" /\ people = MapValues(seen))
    ]_vars

\* a run that appended three candidates, merged two of them in the pass
\* and exported the two identities
C17_Witness ==
  /\ exported
  /\ idx = 3
  /\ Len(seen) = 2
  /\ people = MapValues(seen)

(***************************************************************************)
(* C18: normalisation does not depend on the connector.  Two candidates    *)
(* built from the same location text and the same evidence text have the   *)
(* same location confidence, research flag and score, whichever of         *)
(* fetchGitHubContributors, fetchGitHubOrgMembers and fetchOrgContributors *)
(* built them.                                                             *)
(***************************************************************************)
BuiltFrom(user) ==
  {ContributorPerson(user), OrgMemberPerson(user), OrgContributorPerson(user)}

C18_ConnectorIndependent ==
  pc = "api" =>
    \A u, v \in MapperUsers :
      (Trim(u.location) = Trim(v.location) /\ u.bio = v.bio) =>
        \A i, j \in 1..Len(people) :
          (people[i] \in BuiltFrom(u) /\ people[j] \in BuiltFrom(v)) =>
            /\ people[i].locationConfidence = people[j].locationConfidence
            /\ people[i].isResearchLike = people[j].isResearchLike
            /\ people[i].researchScore = people[j].researchScore

(***************************************************************************)
(* C19: the researchScore of an identity never decreases over the merges   *)
(* of the resolution pass: every step leaves each identity in place with a *)
(* score at least as high as before.                                       *)
(***************************************************************************)
C19_ScoreNeverDecreases ==
  [][\A e \in 1..Len(seen) :
       /\ e <= Len(seen')
       /\ seen'[e].key = seen[e].key
       /\ seen'[e].person.researchScore >= seen[e].person.researchScore]_vars

\* the candidate just merged scores lower than the identity did before it,
\* and the identity's score has still gone up
C19_Witness ==
  /\ Resolving
  /\ idx >= 2
  /\ \E i \in 1..(idx - 1) :
       /\ MergeKey(people[i]) = MergeKey(people[idx])
       /\ people[idx].researchScore < people[i].researchScore
       /\ Get(seen, MergeKey(people[idx])).researchScore > people[i].researchScore

(***************************************************************************)
(* C20 (as stated): the merge key of a candidate is its first non-empty    *)
(* link in the order profile (GitHub), academic (OpenAlex), homepage, and  *)
(* its lower-cased trimmed name only when it has none of the three: a      *)
(* candidate with only a homepage link is filed under that link.           *)
(***************************************************************************)
PriorityKey(p) ==
  IF p.githubUrl # <<>> THEN p.githubUrl
  ELSE IF p.openAlexUrl # <<>> THEN p.openAlexUrl
  ELSE IF p.homepageUrl # <<>> THEN p.homepageUrl
  ELSE NormalizedName(p)

MapKeys == {seen[e].key : e \in 1..Len(seen)}

C20_KeyByFirstOfThreeLinks ==
  Resolving => MapKeys = {PriorityKey(people[i]) : i \in Folded}

(***************************************************************************)
(* C20 (amended): the merge key of a candidate is its GitHub url, else its *)
(* OpenAlex url, else its lower-cased trimmed name; the homepage url is    *)
(* never a key: a candidate with only a homepage link is filed under its   *)
(* name.                                                                   *)
(***************************************************************************)
HomepageOnly(p) ==
  p.githubUrl = <<>> /\ p.openAlexUrl = <<>> /\ p.homepageUrl # <<>>

C20_KeyByProfileAcademicOrName ==
  Resolving =>
    /\ MapKeys = {DocumentedKey(people[i]) : i \in Folded}
    /\ \A i \in Folded :
         HomepageOnly(people[i]) =>
           /\ NormalizedName(people[i]) \in MapKeys
           /\ people[i].homepageUrl \notin MapKeys

\* a candidate with a homepage and no other link, filed under its name
C20_Witness ==
  /\ Resolving
  /\ idx = Len(people)
  /\ \E i \in Folded :
       /\ HomepageOnly(people[i])
       /\ \E e \in 1..Len(seen) :
            /\ seen[e].key = NormalizedName(people[i])
            /\ seen[e].person.homepageUrl = people[i].homepageUrl

(***************************************************************************)
(* C21: a candidate merged into an existing identity leaves it with the    *)
(* score min(1, max(score of the identity, score of the candidate) + 0.1); *)
(* a candidate that creates an identity gives it its own score, without    *)
(* increment.                                                              *)
(***************************************************************************)
C21_ScoreOfMergeAndOfCreation ==
  [][(Resolving /\ idx' = idx + 1) =>
       LET person == people[idx + 1]
           key == MergeKey(person)
           after == Get(seen', key).researchScore
       IN IF HasKey(seen, key)
          THEN LET before == Get(seen, key).researchScore
                   higher == IF before >= person.researchScore
                             THEN before ELSE person.researchScore
               IN after = (IF higher + 9 > 90 THEN 90 ELSE higher + 9)
          ELSE after = person.researchScore]_vars

\* one identity just created with the score of its candidate, another
\* merged from two candidates one tenth above the higher of their scores
C21_Witness ==
  /\ Resolving
  /\ idx = 3
  /\ Len(seen) = 2
  /\ \E i, j \in 1..2 :
       /\ i < j
       /\ MergeKey(people[i]) = MergeKey(people[j])
       /\ people[i].researchScore # people[j].researchScore
       /\ Get(seen, MergeKey(people[i])).researchScore =
            Max(people[i].researchScore, people[j].researchScore) + 9
  /\ seen[2].key = MergeKey(people[3])
  /\ seen[2].person.researchScore = people[3].researchScore
  /\ people[3].researchScore > 0

(***************************************************************************)
(* C22: the name of an identity is the name of the first candidate seen    *)
(* with its merge key; a later merge does not overwrite it, whatever the   *)
(* name or the confidence of the later candidate, unless the stored name   *)
(* is empty, in which case the name of the candidate is taken.             *)
(***************************************************************************)
C22_FirstNameUnlessEmpty ==
  [][(Resolving /\ idx' = idx + 1) =>
       LET person == people[idx + 1]
           key == MergeKey(person)
           after == Get(seen', key).name
       IN IF HasKey(seen, key)
          THEN after = (IF Get(seen, key).name = <<>> THEN person.name
                        ELSE Get(seen, key).name)
          ELSE after = person.name]_vars

(***************************************************************************)
(* C23: the working set only accumulates.  After any prefix of the stream  *)
(* has been folded there are as many identities as distinct merge keys in  *)
(* the prefix; a step creates an identity exactly when the key of its      *)
(* candidate is new, and removes none; the partition of the candidates     *)
(* into identities is the same for every arrival order.                    *)
(***************************************************************************)
\* the blocks of candidates of ps that the Map s files under one key
Partition(s, ps) ==
  {{i \in 1..Len(ps) : DocumentedKey(ps[i]) = s[e].key} : e \in 1..Len(s)}

C23_OnePerKeyInPrefix ==
  Resolving =>
    /\ Len(seen) = Cardinality({DocumentedKey(people[i]) : i \in Folded})
    /\ \A e \in 1..Len(seen) :
         \E i \in Folded : DocumentedKey(people[i]) = seen[e].key

C23_PartitionWhateverTheOrder ==
  StreamComplete =>
    \A f \in ArrivalOrders(Len(Stream)) :
      LET reordered == Permuted(Stream, f)
      IN {{f[i] : i \in block} : block \in Partition(DedupFold(reordered), reordered)}
           = Partition(DedupFold(Stream), Stream)

C23_CreatedOnNewKeyOnly ==
  (Resolving /\ idx' = idx + 1) =>
    /\ \A e \in 1..Len(seen) : e <= Len(seen') /\ seen'[e].key = seen[e].key
    /\ Len(seen') = (IF DocumentedKey(people[idx + 1]) \in KeysOf(seen)
                     THEN Len(seen) ELSE Len(seen) + 1)

C23_AccumulateOnly ==
  /\ [](C23_OnePerKeyInPrefix /\ C23_PartitionWhateverTheOrder)
  /\ [][C23_CreatedOnNewKeyOnly]_vars

\* three candidates, two of one key with the third of another key between
\* them, all folded: two identities
C23_Witness ==
  /\ Resolving
  /\ idx = 3
  /\ Len(people) = 3
  /\ MergeKey(people[1]) = MergeKey(people[3])
  /\ MergeKey(people[1]) # MergeKey(people[2])
  /\ Len(seen) = 2

(***************************************************************************)
(* C24: isResearchLike is true exactly when the lower-cased evidence text  *)
(* contains at least one keyword of the keyword set, and false otherwise,  *)
(* the empty text included.                                                *)
(***************************************************************************)
\* k is a contiguous part of text
Contains(text, k) ==
  \E a \in 0..Len(text) : \E b \in a..Len(text) : SubSeq(text, a + 1, b) = k

\* the candidates whose flag isResearchLike computed from the bio of user
ClassifiedFrom(user) == {ContributorPerson(user), OrgMemberPerson(user)}

C24_ResearchLikeIffSomeKeyword ==
  pc = "api" =>
    \A user \in MapperUsers : \A i \in 1..Len(people) :
      people[i] \in ClassifiedFrom(user) =>
        (people[i].isResearchLike <=>
           \E k \in SeqToSet(researchKeywords) :
             Contains(ToLowerCase(user.bio), k))

\* a bio that holds a keyword only once lower-cased, flagged, beside a
\* bio that is not empty and holds no keyword, not flagged
C24_Witness ==
  /\ pc = "api"
  /\ Len(people) = 2
  /\ \E u, w \in MapperUsers :
       /\ people[1] \in ClassifiedFrom(u)
       /\ ~isResearchLike(u.bio)
       /\ people[1].isResearchLike
       /\ people[2] \in ClassifiedFrom(w)
       /\ w.bio # <<>>
       /\ ~people[2].isResearchLike

(***************************************************************************)
(* C25: computeResearchScore(text) is min(1, hits/9 + 0.2), hits being the *)
(* number of distinct keywords of the keyword set of isResearchLike that   *)
(* the text contains: 0.2 without keyword, never above 1, and above 0.2    *)
(* exactly when isResearchLike(text) is true.  In units of 1/90 the score  *)
(* is min(90, 10 * hits + 18).                                             *)
(***************************************************************************)
Hits(text) ==
  Cardinality({k \in SeqToSet(researchKeywords) : Contains(text, k)})

C25_ScoreFromHits ==
  pc = "api" =>
    \A user \in MapperUsers : \A i \in 1..Len(people) :
      people[i] \in ClassifiedFrom(user) =>
        LET hits == Hits(ToLowerCase(user.bio))
            score == people[i].researchScore
        IN /\ score = (IF 10 * hits + 18 > 90 THEN 90 ELSE 10 * hits + 18)
           /\ hits = 0 => score = 18
           /\ score <= 90
           /\ score > 18 <=> people[i].isResearchLike

\* a bio with the nine keywords scored 1 by the cap, beside a bio with
\* three keywords scored 3/9 + 0.2
C25_Witness ==
  /\ pc = "api"
  /\ Len(people) = 2
  /\ \E u, v \in MapperUsers :
       /\ people[1] \in ClassifiedFrom(u)
       /\ Hits(ToLowerCase(u.bio)) = 9
       /\ people[1].researchScore = 90
       /\ people[2] \in ClassifiedFrom(v)
       /\ Hits(ToLowerCase(v.bio)) = 3
       /\ people[2].researchScore = 48

(***************************************************************************)
(* C26: assessLocationConfidence is tiered, the first matching tier wins:  *)
(* a text with a high-tier keyword is 'high' even if it also holds         *)
(* medium-tier keywords; otherwise a text with a medium-tier keyword is    *)
(* 'medium'; an empty text or a text without keyword is 'low'.             *)
(***************************************************************************)
InTier(keywords, text) == \E k \in SeqToSet(keywords) : Contains(text, k)

C26_FirstMatchingTier ==
  pc = "api" =>
    \A user \in MapperUsers : \A i \in 1..Len(people) :
      people[i] = ContributorPerson(user) =>
        LET loc == ToLowerCase(Trim(user.location))
        IN people[i].locationConfidence =
             (CASE InTier(highConfidenceKeywords, loc) -> "high"
                [] ~InTier(highConfidenceKeywords, loc)
                     /\ InTier(mediumConfidenceKeywords, loc) -> "medium"
                [] OTHER -> "low")

\* a location with a high and a medium keyword rated high, beside a
\* location with a medium keyword only rated medium
C26_Witness ==
  /\ pc = "api"
  /\ Len(people) = 2
  /\ \E u, v \in MapperUsers :
       /\ people[1] = ContributorPerson(u)
       /\ InTier(highConfidenceKeywords, ToLowerCase(u.location))
       /\ InTier(mediumConfidenceKeywords, ToLowerCase(u.location))
       /\ people[1].locationConfidence = "high"
       /\ people[2] = ContributorPerson(v)
       /\ ~InTier(highConfidenceKeywords, ToLowerCase(v.location))
       /\ people[2].locationConfidence = "medium"

(***************************************************************************)
(* C27: after deduplicatePeople no two identities of the working set have  *)
(* the same merge key (GitHub url, else OpenAlex url, else lower-cased     *)
(* trimmed name), so a second pass over its own output merges nothing and  *)
(* changes no field, researchScore included.                               *)
(***************************************************************************)
\* deduplicatePeople runs again, on the output of an earlier pass
SecondPass == Resolving /\ exported

C27_OutputKeysDistinct ==
  pc = "write" =>
    \A i, j \in 1..Len(people) :
      DocumentedKey(people[i]) = DocumentedKey(people[j]) => i = j

C27_SecondPassStep ==
  (SecondPass /\ idx' = idx + 1) =>
    seen' = Append(seen, [key |-> DocumentedKey(people[idx + 1]),
                          person |-> people[idx + 1]])

C27_SecondPassEnd ==
  (SecondPass /\ pc' = "write") => people' = people

C27_SecondPassChangesNothing ==
  /\ []C27_OutputKeysDistinct
  /\ [][C27_SecondPassStep /\ C27_SecondPassEnd]_vars

\* the second pass has run over the identity merged from the two profiles
\* of jane: still one identity, still 57/90
C27_Witness ==
  /\ pc = "write"
  /\ exported
  /\ idx = 1
  /\ Len(people) = 1
  /\ people[1].name = NameJaneDoe
  /\ people[1].researchScore = 57

(***************************************************************************)
(* C28: after deduplicateResearchers no two researchers share the same     *)
(* lower-cased trimmed name; the record retained for a name is the first   *)
(* 'high' record with that name if there is one and the first record with  *)
(* that name otherwise; it is one of the input records, unchanged, and     *)
(* every name of the input is retained.                                    *)
(***************************************************************************)
Retained(researchers, key) ==
  LET same == {i \in 1..Len(researchers) : ResearcherKey(researchers[i]) = key}
      high == {i \in same : researchers[i].confidence = "high"}
      from == IF high # {} THEN high ELSE same
  IN researchers[CHOOSE i \in from : \A j \in from : i <= j]

C28_Deduplicated ==
  /\ \A i, j \in 1..Len(people') :
       ResearcherKey(people'[i]) = ResearcherKey(people'[j]) => i = j
  /\ \A i \in 1..Len(people') :
       /\ people'[i] = Retained(people, ResearcherKey(people'[i]))
       /\ \E j \in 1..Len(people) : people'[i] = people[j]
  /\ \A j \in 1..Len(people) :
       \E i \in 1..Len(people') : ResearcherKey(people'[i]) = ResearcherKey(people[j])

C28_FirstHighElseFirstSeen ==
  [][pc = "s_dedup" /\ pc' = "s_write" => C28_Deduplicated]_vars

\* a 'medium' record, then two 'high' records of the same name: the first
\* 'high' one is retained
C28_Witness ==
  /\ pc = "s_dedup"
  /\ idx = 3
  /\ Len(people) = 3
  /\ people[1].confidence = "medium"
  /\ people[2].confidence = "high"
  /\ people[3].confidence = "high"
  /\ people[2] # people[3]
  /\ MapValues(seen) = <<people[2]>>

(***************************************************************************)
(* C29: every run of main ends, and ends with close(): close() is called   *)
(* after exportResults has returned or after the catch block (whatever     *)
(* threw: initialize, a connector, exportResults), main ends only through  *)
(* close(), the browser is not open when main has ended, and nothing runs  *)
(* after close(), so that close() is called exactly once.                  *)
(***************************************************************************)
Finished == pc \in {"done", "s_done"}

InClose == pc \in {"close", "s_close"}

C29_CloseAfterExportOrCatch ==
  /\ InClose' /\ ~InClose => pc \in {"write", "catch", "s_write", "s_catch"}
  /\ Finished' => InClose
  /\ InClose => Finished'
  /\ ~Finished

C29_AlwaysClosedOnce ==
  /\ <>Finished
  /\ [](Finished => ~browser)
  /\ [][C29_CloseAfterExportOrCatch]_vars

\* main has ended after a connector threw with the browser launched
C29_Witness ==
  /\ pc = "done"
  /\ error = "fetchGitHubOrgMembers"
  /\ page
  /\ ~browser

(***************************************************************************)
(* C30: the enrichment clients never throw to their caller and issue no    *)
(* request without a key.  domainSearch and searchPeople return the empty  *)
(* list when the client has no key or when the request fails.              *)
(* findXAIResearchers asks exactly the clients that have a key and returns *)
(* the people of Hunter followed by the people of PeopleDataLabs, a client *)
(* without a key or with a failed request contributing no one.             *)
(***************************************************************************)
Requested == {requests[i] : i \in 1..Len(requests)}

Failed(response) == response.kind \in {"rejected", "malformed"}

\* the people a client contributes: those of its response, if it has a key
\* and the request succeeded
HunterPart ==
  IF hasKey(hunterKey) /\ lastCall.hunter.kind = "items"
  THEN [i \in 1..Len(lastCall.hunter.items) |-> HunterPerson(lastCall.hunter.items[i])]
  ELSE <<>>

PdlPart ==
  IF hasKey(pdlKey) /\ lastCall.pdl.kind = "items"
  THEN [i \in 1..Len(lastCall.pdl.items) |-> PdlPerson(lastCall.pdl.items[i])]
  ELSE <<>>

C30_ClientsNeverThrowNorCallWithoutKey ==
  /\ error = "none"
  /\ ~hasKey(hunterKey) => "hunter" \notin Requested
  /\ ~hasKey(pdlKey) => "pdl" \notin Requested
  /\ lastCall.method = "domainSearch" =>
       /\ ~hasKey(hunterKey) => lastCall.hunter = NoResponse
       /\ ~hasKey(hunterKey) \/ Failed(lastCall.hunter) => lastCall.returned = <<>>
  /\ lastCall.method = "searchPeople" =>
       /\ ~hasKey(pdlKey) => lastCall.pdl = NoResponse
       /\ ~hasKey(pdlKey) \/ Failed(lastCall.pdl) => lastCall.returned = <<>>
  /\ lastCall.method = "findXAIResearchers" =>
       /\ hasKey(hunterKey) <=> lastCall.hunter # NoResponse
       /\ hasKey(pdlKey) <=> lastCall.pdl # NoResponse
       /\ lastCall.returned = HunterPart \o PdlPart

\* findXAIResearchers with both keys: the request of Hunter fails and the
\* people of PeopleDataLabs are returned
C30_Witness ==
  /\ lastCall.method = "findXAIResearchers"
  /\ lastCall.hunter.kind = "rejected"
  /\ lastCall.pdl.kind = "items"
  /\ Len(lastCall.returned) = 1
  /\ lastCall.returned[1].source = "PeopleDataLabs"
  /\ error = "none"

====
